---- MODULE Spec2Model ----
(***************************************************************************)
(* State-machine model of src/main.py: SemanticScholarScraper.run and the  *)
(* three phases it drives (_scrape_search_results, _scrape_author_profiles,*)
(* _export_data).  The browser and the site are the environment: every     *)
(* Playwright call returns one of the results it can return, chosen with   *)
(* \E.  Strings are sequences of tokens ("/" and path segments for hrefs,  *)
(* characters for profile texts), so that rstrip, split, strip and the     *)
(* regular expressions are computed, not assumed.                          *)
(***************************************************************************)
EXTENDS Integers, Sequences, FiniteSets, TLC

VARIABLES
    argv2,                  \* sys.argv[2], None when the command line has no limit
    limit,                  \* self.limit
    site,                   \* which site the browser is talking to (environment)
    pc,                     \* position of the single thread of control in run()
    error,                  \* the exception that left run(), "none" while there is none
    papers,                 \* self.papers (list of dicts)
    authors,                \* self.authors (dict author_id -> dict)
    paper_authors,          \* self.paper_authors (list of dicts)
    author_urls_to_scrape,  \* self.author_urls_to_scrape (set of URLs)
    page_count,             \* local page_count of _scrape_search_results
    cards,                  \* local cards of the page being processed
    cardIdx,                \* position of "for card in cards"
    paper_s2_id,            \* local paper_s2_id of the card being processed
    author_els,             \* local author_els of the card being processed
    authIdx,                \* position of "for auth_el in author_els"
    searchStop,             \* which exit of the pagination loop was taken
    visited,                \* author URL -> what its visit did (loop position + history)
    auth_url,               \* loop variable of _scrape_author_profiles
    attempts,               \* author URL -> number of page.goto calls made for it
    openPages,              \* author pages opened by context.new_page() and not closed
    last_visit,             \* what the latest profile visit met (history)
    slept,                  \* the sleep of line 402 has run since an author page was last opened
    exportInvoked,          \* _export_data has been entered
    csv_papers,             \* rows written to papers.csv
    csv_authors,            \* rows written to authors.csv
    csv_paper_authors       \* rows written to paper_authors.csv

vars == << argv2, limit, site, pc, error, papers, authors, paper_authors,
           author_urls_to_scrape, page_count, cards, cardIdx, paper_s2_id,
           author_els, authIdx, searchStop, visited, auth_url, attempts,
           openPages, last_visit, slept, exportInvoked, csv_papers, csv_authors, csv_paper_authors >>

-----------------------------------------------------------------------------
(* Values *)

\* An optional value (a Python value that may be None, an element handle that
\* may be None) is << >> for None and << x >> for x.
None == << >>
Some(x) == << x >>
IsSome(o) == o # << >>
Val(o) == o[1]

-----------------------------------------------------------------------------
(* Bounds and program constants *)

MaxSmallLimit == 2          \* largest limit explored with the full catalogue
MaxPageLen == 2             \* most cards on one page of the catalogue
ScenarioLimit == 3          \* the limit of the run against the two-page site
DefaultLimit == 50
PageCeiling == 20
MaxCitation == 1000000

-----------------------------------------------------------------------------
(* String helpers (strings are sequences of tokens) *)

Last(s) == s[Len(s)]
Front(s) == SubSeq(s, 1, Len(s) - 1)

RECURSIVE RStrip(_, _)
\* str.rstrip(chars): drop the trailing tokens that are in chars
RStrip(s, chars) ==
    IF s # << >> /\ Last(s) \in chars THEN RStrip(Front(s), chars) ELSE s

RECURSIVE LStrip(_, _)
LStrip(s, chars) ==
    IF s # << >> /\ Head(s) \in chars THEN LStrip(Tail(s), chars) ELSE s

Whitespace == {" ", "\n", "\t"}

\* str.strip()
Strip(s) == LStrip(RStrip(s, Whitespace), Whitespace)

RECURSIVE LastSegment(_)
\* s.split('/')[-1]: the tokens after the last "/" (empty when s ends in "/")
LastSegment(s) ==
    IF s = << >> THEN << >>
    ELSE IF Last(s) = "/" THEN << >>
    ELSE LastSegment(Front(s)) \o << Last(s) >>

\* sub in s
Contains(s, sub) ==
    \E i \in 1..(Len(s) - Len(sub) + 1) : SubSeq(s, i, i + Len(sub) - 1) = sub

\* s.startswith('http'): the scheme token of an absolute URL
StartsWithHttp(s) == s # << >> /\ s[1] \in {"http:", "https:"}

\* self.base_url
base_url == << "https:", "/", "/", "www.semanticscholar.org" >>

\* hashlib.md5(title.encode()).hexdigest()[:16]: a deterministic function of the title
Md5Prefix(title) == << "md5" >> \o title

\* Python truthiness of an optional string: neither None nor ""
Truthy(o) == IsSome(o) /\ Val(o) # << >>

-----------------------------------------------------------------------------
(* The site: cards, author links and pages the browser can return *)

\* an <a> element of a card's author list: its inner text and its href attribute
AuthorEl(name, href) == [name |-> name, href |-> href]

HrefAnn == << "/", "author", "/", "Ann", "/", "101" >>
HrefAnnAbs == base_url \o HrefAnn
HrefBob == << "/", "author", "/", "Bob", "/", "202" >>
HrefRobert == << "/", "author", "/", "Robert", "/", "202" >>
HrefCySlash == << "/", "author", "/", "Cy", "/", "303", "/" >>
HrefDan == << "/", "author", "/", "Dan", "/", "404" >>
HrefNotAuthor == << "/", "search", "/", "x" >>

\* A card is what the card's element handle answers: one optional element per
\* title selector and per link selector, the optional text of the year and
\* citation elements (as the numbers the text holds), and the element list of
\* each author selector.
Card1 ==
    [ title_els |-> << Some(<< " ", "T1", " " >>), None, None, None >>,
      link_els |-> << Some([href |-> Some(<< "/", "paper", "/", "T1", "/", "p1" >>)]),
                      None, None, None >>,
      pubdates |-> Some(<< 7, 2019 >>),
      citation_texts |-> << Some(<< 12 >>), None >>,
      author_sel_els |-> << << AuthorEl(<< "Ann" >>, Some(HrefAnn)),
                               AuthorEl(<< "Bob", " " >>, Some(HrefBob)) >>,
                            << >>, << >>, << >> >> ]

Card2 ==
    [ title_els |-> << None, Some(<< "T2" >>), None, None >>,
      link_els |-> << Some([href |-> Some(<< "/", "search" >>)]),
                      Some([href |-> Some(base_url \o << "/", "paper", "/", "p2" >>)]),
                      None, None >>,
      pubdates |-> None,
      citation_texts |-> << None, Some(<< 3 >>) >>,
      author_sel_els |-> << << >>,
                            << AuthorEl(<< "A. Ann" >>, Some(HrefAnnAbs)),
                               AuthorEl(<< "Cy" >>, Some(HrefCySlash)) >>,
                            << >>, << >> >> ]

\* the same paper id as Card1 (a trailing slash on the href), other fields differ
Card3 ==
    [ title_els |-> << Some(<< "T1", " ", "v2" >>), None, None, None >>,
      link_els |-> << Some([href |-> Some(<< "/", "paper", "/", "T1", "/", "p1", "/" >>)]),
                      None, None, None >>,
      pubdates |-> Some(<< 12 >>),
      citation_texts |-> << None, None >>,
      author_sel_els |-> << << >>, << >>, << >>,
                            << AuthorEl(<< "x" >>, Some(HrefNotAuthor)),
                               AuthorEl(<< "y" >>, None),
                               AuthorEl(<< "Ann", " ", "B." >>, Some(HrefAnn)) >> >> ]

\* no title element, a link element without href; its author is Card1's
\* second author under another profile link
Card4 ==
    [ title_els |-> << None, None, None, None >>,
      link_els |-> << None, Some([href |-> None]), None, None >>,
      pubdates |-> None,
      citation_texts |-> << None, None >>,
      author_sel_els |-> << << >>, << >>,
                            << AuthorEl(<< "Robert" >>, Some(HrefRobert)) >>,
                            << >> >> ]

Cards == { Card1, Card2, Card3, Card4 }

\* the cards of the two-page site after Card1: each lists two authors, and
\* Card1's first author is on all of them
TwoPageCard2 ==
    [ title_els |-> << Some(<< "S2" >>), None, None, None >>,
      link_els |-> << Some([href |-> Some(<< "/", "paper", "/", "s2" >>)]),
                      None, None, None >>,
      pubdates |-> Some(<< 2021 >>),
      citation_texts |-> << Some(<< 5 >>), None >>,
      author_sel_els |-> << << AuthorEl(<< "Ann" >>, Some(HrefAnn)),
                               AuthorEl(<< "Dan" >>, Some(HrefDan)) >>,
                            << >>, << >>, << >> >> ]

TwoPageCard3 ==
    [ title_els |-> << Some(<< "S3" >>), None, None, None >>,
      link_els |-> << Some([href |-> Some(<< "/", "paper", "/", "s3" >>)]),
                      None, None, None >>,
      pubdates |-> Some(<< 2022 >>),
      citation_texts |-> << None, None >>,
      author_sel_els |-> << << AuthorEl(<< "Ann" >>, Some(HrefAnn)),
                               AuthorEl(<< "Bob" >>, Some(HrefBob)) >>,
                            << >>, << >>, << >> >> ]

RECURSIVE SeqsUpTo(_, _)
\* the sequences over S of length at most n
SeqsUpTo(S, n) ==
    IF n = 0 THEN { << >> }
    ELSE LET shorter == SeqsUpTo(S, n - 1)
         IN  shorter \cup { Append(q, x) : q \in shorter, x \in S }

\* A page is what page.query_selector_all answers for each of the four card
\* selectors.
PageOf(k, cs) == [sel_cards |-> [i \in 1..4 |-> IF i = k THEN cs ELSE << >>]]

\* the catalogue site: any page of at most MaxPageLen cards, under the first
\* selector or (one page) under the third
CataloguePages ==
    { PageOf(1, cs) : cs \in SeqsUpTo(Cards, MaxPageLen) }
        \cup { PageOf(3, << Card2 >>) }

\* the looping site: every page is the same one-card page
LoopingPages == { PageOf(1, << Card1 >>) }

\* the two-page site: a page of two cards and a page of one card
TwoPagePages ==
    { PageOf(1, << Card1, TwoPageCard2 >>), PageOf(1, << TwoPageCard3 >>) }

Sites == { "catalogue", "looping" }

SitePages(s) ==
    CASE s = "looping" -> LoopingPages
      [] s = "twopage" -> TwoPagePages
      [] OTHER -> CataloguePages

\* the decimal digit of n, for n in 0..9
DigitChar(n) ==
    CASE n = 0 -> "0" [] n = 1 -> "1" [] n = 2 -> "2" [] n = 3 -> "3"
      [] n = 4 -> "4" [] n = 5 -> "5" [] n = 6 -> "6" [] n = 7 -> "7"
      [] n = 8 -> "8" [] n = 9 -> "9"

\* the limit arguments a run against the catalogue is started with
SmallArgs ==
    { Some(<< "-", "1" >>) } \cup { Some(<< DigitChar(n) >>) : n \in 0..MaxSmallLimit }

\* no limit argument, and limit arguments that int() rejects
DefaultArgs == { None, Some(<< "a", "b", "c" >>) }

\* the limit argument of the run against the two-page site
ScenarioArg == Some(<< DigitChar(ScenarioLimit) >>)

-----------------------------------------------------------------------------
(* Field extraction from a card (pure functions of the card) *)

\* the bug of trying the primary rule only
PrimaryRuleOnly(answers) ==
    IF answers = << >> THEN << >> ELSE Head(answers)

\* "for sel in selectors: x = query(sel); if x: break": the first non-empty
\* answer, or the last answer when all are empty
FirstNonEmpty(answers) ==
    IF \E i \in 1..Len(answers) : answers[i] # << >>
    THEN answers[CHOOSE i \in 1..Len(answers) :
                    /\ answers[i] # << >>
                    /\ \A j \in 1..(i - 1) : answers[j] = << >>]
    ELSE IF answers = << >> THEN << >> ELSE Last(answers)

UnknownTitle == << "Unknown Title" >>

\* lines 145-153
ExtractTitle(card) ==
    LET t == FirstNonEmpty(card.title_els)
    IN  IF IsSome(t) THEN Strip(Val(t)) ELSE UnknownTitle

\* the link element passes "relative_url and '/paper/' in relative_url"
IsPaperLink(el) ==
    /\ IsSome(el)
    /\ Truthy(Val(el).href)
    /\ Contains(Val(Val(el).href), << "/", "paper", "/" >>)

\* lines 157-181: [url, id] from the first link element with a /paper/ href
ExtractLink(card) ==
    IF \E i \in 1..Len(card.link_els) : IsPaperLink(card.link_els[i])
    THEN LET i == CHOOSE i \in 1..Len(card.link_els) :
                    /\ IsPaperLink(card.link_els[i])
                    /\ \A j \in 1..(i - 1) : ~IsPaperLink(card.link_els[j])
             relative_url == Val(Val(card.link_els[i]).href)
         IN  [ url |-> IF ~StartsWithHttp(relative_url)
                       THEN base_url \o relative_url
                       ELSE relative_url,
               id |-> Some(LastSegment(RStrip(relative_url, {"/"}))) ]
    ELSE [ url |-> << "N/A" >>, id |-> None ]

\* lines 183-185
ExtractPaperId(card) ==
    LET l == ExtractLink(card)
    IN  IF Truthy(l.id) THEN Val(l.id) ELSE Md5Prefix(ExtractTitle(card))

\* re.search(r'\b(19|20)\d{2}\b', text): the first number of the text that is
\* a four-digit number starting with 19 or 20
FirstYear(nums) ==
    IF \E i \in 1..Len(nums) : nums[i] \in 1900..2099
    THEN Some(nums[CHOOSE i \in 1..Len(nums) :
                      /\ nums[i] \in 1900..2099
                      /\ \A j \in 1..(i - 1) : nums[j] \notin 1900..2099])
    ELSE None

\* lines 188-197
ExtractYear(card) ==
    IF IsSome(card.pubdates) THEN FirstYear(Val(card.pubdates)) ELSE None

\* lines 199-211: the first number of the first citation element found
ExtractCardCitations(card) ==
    LET citation_el == IF IsSome(card.citation_texts[1])
                       THEN card.citation_texts[1]
                       ELSE card.citation_texts[2]
    IN  IF IsSome(citation_el) /\ Val(citation_el) # << >>
        THEN Some(Head(Val(citation_el)))
        ELSE None

\* lines 214-220
PaperOf(card) ==
    [ paper_id |-> ExtractPaperId(card),
      title |-> ExtractTitle(card),
      url |-> ExtractLink(card).url,
      year |-> ExtractYear(card),
      citation_count |-> ExtractCardCitations(card) ]

\* lines 223-234
ExtractAuthorEls(card) == FirstNonEmpty(card.author_sel_els)

\* line 241
IsAuthorLink(auth_el) ==
    /\ Truthy(auth_el.href)
    /\ Contains(Val(auth_el.href), << "/", "author", "/" >>)

\* lines 243-246
FullAuthUrl(auth_href) ==
    IF ~StartsWithHttp(auth_href) THEN base_url \o auth_href ELSE auth_href

\* lines 249-250: the author id at discovery
DiscoveredAuthorId(auth_href) == LastSegment(RStrip(auth_href, {"/"}))

\* line 320: the author id at visit time
VisitedAuthorId(url) == LastSegment(url)

-----------------------------------------------------------------------------
(* The command line (lines 444-453); arguments are sequences of characters *)

DecimalDigits == { "0", "1", "2", "3", "4", "5", "6", "7", "8", "9" }

RECURSIVE DecimalValue(_, _)
\* the value of the digits of s after the digits read so far
DecimalValue(s, acc) ==
    IF s = << >> THEN acc
    ELSE DecimalValue(Tail(s), 10 * acc + (CHOOSE n \in 0..9 : DigitChar(n) = Head(s)))

\* int(arg): surrounding whitespace is dropped, one sign is allowed, and the
\* rest must be digits; None stands for the ValueError
ParseInt(arg) ==
    LET t == Strip(arg)
        signed == t # << >> /\ Head(t) \in { "+", "-" }
        digits == IF signed THEN Tail(t) ELSE t
    IN  IF digits # << >> /\ \A k \in 1..Len(digits) : digits[k] \in DecimalDigits
        THEN Some(IF signed /\ Head(t) = "-"
                  THEN 0 - DecimalValue(digits, 0)
                  ELSE DecimalValue(digits, 0))
        ELSE None

\* lines 445-453: the limit handed to the scraper
EffectiveLimit(arg) ==
    IF IsSome(arg) /\ IsSome(ParseInt(Val(arg)))
    THEN Val(ParseInt(Val(arg)))
    ELSE DefaultLimit

-----------------------------------------------------------------------------
(* Initial state: __init__ (lines 26-39) and the command line (lines 444-459) *)

Init ==
    /\ \/ argv2 \in SmallArgs /\ site \in Sites
       \/ argv2 \in DefaultArgs /\ site = "looping"
       \/ argv2 = ScenarioArg /\ site = "twopage"
    /\ limit = EffectiveLimit(argv2)
    /\ pc = "start"
    /\ error = "none"
    /\ papers = << >>
    /\ authors = << >>
    /\ paper_authors = << >>
    /\ author_urls_to_scrape = {}
    /\ page_count = 0
    /\ cards = << >>
    /\ cardIdx = 0
    /\ paper_s2_id = << >>
    /\ author_els = << >>
    /\ authIdx = 0
    /\ searchStop = "none"
    /\ visited = << >>
    /\ auth_url = << >>
    /\ attempts = << >>
    /\ openPages = 0
    /\ last_visit = [kind |-> "none"]
    /\ slept = FALSE
    /\ exportInvoked = FALSE
    /\ csv_papers = << >>
    /\ csv_authors = {}
    /\ csv_paper_authors = << >>

repoVars == << papers, authors, paper_authors, author_urls_to_scrape >>
cardVars == << cards, cardIdx, paper_s2_id, author_els, authIdx >>
authorPhaseVars == << visited, auth_url, attempts, openPages, last_visit, slept >>
exportVars == << exportInvoked, csv_papers, csv_authors, csv_paper_authors >>

-----------------------------------------------------------------------------
(* Phase 1: _scrape_search_results (lines 87-307) *)

\* line 92: page.goto(search_url) returned
Goto ==
    /\ pc = "start"
    /\ pc' = "loop_head"
    /\ UNCHANGED << argv2, limit, site, error, repoVars, page_count, cardVars,
                    searchStop, authorPhaseVars, exportVars >>

\* line 98: the condition of the pagination loop
LoopCondition == Len(papers) < limit

\* the pagination loop is left (break, or its condition is false) and
\* _scrape_search_results returns to run(), line 79; its locals are gone
LeaveSearch(reason) ==
    /\ pc' = "author_loop"
    /\ searchStop' = reason
    /\ page_count' = 0
    /\ cards' = << >>
    /\ cardIdx' = 0
    /\ paper_s2_id' = << >>
    /\ author_els' = << >>
    /\ authIdx' = 0

\* line 99.  The counter is only ever compared with the ceiling (line 305), so
\* values above PageCeiling + 1 are not told apart.
NextPageCount(n) == IF n > PageCeiling THEN n ELSE n + 1

\* lines 98-100
LoopHead ==
    /\ pc = "loop_head"
    /\ IF LoopCondition
       THEN /\ page_count' = NextPageCount(page_count)
            /\ pc' = "wait"
            /\ UNCHANGED << cardVars, searchStop >>
       ELSE LeaveSearch("limit")
    /\ UNCHANGED << argv2, limit, site, error, repoVars, authorPhaseVars, exportVars >>

\* what the two wait_for_selector calls of lines 103-110 can end in: a selector
\* appeared, or both waits timed out
WaitResults == { "appeared", "timeout" }

\* the bug of writing continue for the break of line 117
AfterPageTimeoutContinue == "continue"

\* where control goes when both waits timed out (line 117: break)
AfterPageTimeout == "leave"

\* lines 102-117
WaitForResults ==
    /\ pc = "wait"
    /\ \E r \in WaitResults :
          IF r = "appeared"
          THEN /\ pc' = "query"
               /\ UNCHANGED << page_count, cardVars, searchStop >>
          ELSE IF AfterPageTimeout = "leave"
          THEN LeaveSearch("timeout")
          ELSE /\ pc' = "loop_head"
               /\ UNCHANGED << page_count, cardVars, searchStop >>
    /\ UNCHANGED << argv2, limit, site, error, repoVars, authorPhaseVars, exportVars >>

\* lines 119-137: the page the site serves, and the cards found on it
QueryCards ==
    /\ pc = "query"
    /\ \E page \in SitePages(site) :
          LET found == FirstNonEmpty(page.sel_cards)
          IN  IF found = << >>
              THEN LeaveSearch("no_cards")
              ELSE /\ cards' = found
                   /\ cardIdx' = 1
                   /\ pc' = "cards"
                   /\ UNCHANGED << page_count, paper_s2_id, author_els, authIdx,
                                   searchStop >>
    /\ UNCHANGED << argv2, limit, site, error, repoVars, authorPhaseVars, exportVars >>

\* line 140: the guard of the card loop
CardGuard == Len(papers) >= limit

\* line 214
AddPaper(ps, paper) == Append(ps, paper)

\* lines 139-234: one iteration of "for card in cards" up to the author loop
ProcessCard ==
    /\ pc = "cards"
    /\ IF cardIdx > Len(cards) \/ CardGuard
       THEN /\ pc' = "paginate"
            /\ UNCHANGED << papers, cardIdx, paper_s2_id, author_els, authIdx >>
       ELSE LET card == cards[cardIdx]
                els == ExtractAuthorEls(card)
            IN  /\ papers' = AddPaper(papers, PaperOf(card))
                /\ paper_s2_id' = ExtractPaperId(card)
                /\ author_els' = els
                /\ IF els = << >>
                   THEN /\ authIdx' = 0
                        /\ cardIdx' = cardIdx + 1
                        /\ pc' = "cards"
                   ELSE /\ authIdx' = 1
                        /\ cardIdx' = cardIdx
                        /\ pc' = "card_authors"
    /\ UNCHANGED << argv2, limit, site, error, authors, paper_authors,
                    author_urls_to_scrape, page_count, cards, searchStop,
                    authorPhaseVars, exportVars >>

\* lines 253-256
AddLink(links, paper_id, author_id) ==
    Append(links, [paper_id |-> paper_id, author_id |-> author_id])

\* the bug of testing "in" for "not in" at line 259
AuthorKnownInverted(author_id) == author_id \notin DOMAIN authors

\* the bug of inserting the author without the membership test of line 259
AuthorNeverKnown(author_id) == FALSE

\* line 259: the membership test that guards the insertion of an author
AuthorKnown(author_id) == author_id \in DOMAIN authors

\* lines 260-265
NewAuthor(author_id, auth_name, full_auth_url) ==
    [ author_id |-> author_id,
      name |-> auth_name,
      profile_url |-> full_auth_url,
      citation_count |-> None ]

\* f with key k set to v (dict assignment)
Put(f, k, v) == [x \in DOMAIN f \cup {k} |-> IF x = k THEN v ELSE f[x]]

\* lines 236-266: one iteration of "for auth_el in author_els"
ProcessAuthor ==
    /\ pc = "card_authors"
    /\ LET auth_el == author_els[authIdx]
           auth_name == Strip(auth_el.name)
       IN  IF IsAuthorLink(auth_el)
           THEN LET auth_href == Val(auth_el.href)
                    full_auth_url == FullAuthUrl(auth_href)
                    author_id == DiscoveredAuthorId(auth_href)
                IN  /\ paper_authors' = AddLink(paper_authors, paper_s2_id, author_id)
                    /\ IF ~AuthorKnown(author_id)
                       THEN /\ authors' = Put(authors, author_id,
                                              NewAuthor(author_id, auth_name, full_auth_url))
                            /\ author_urls_to_scrape' =
                                   author_urls_to_scrape \cup { full_auth_url }
                       ELSE UNCHANGED << authors, author_urls_to_scrape >>
           ELSE UNCHANGED << authors, paper_authors, author_urls_to_scrape >>
    /\ IF authIdx < Len(author_els)
       THEN /\ authIdx' = authIdx + 1
            /\ UNCHANGED << cardIdx, pc >>
       ELSE /\ authIdx' = 0
            /\ cardIdx' = cardIdx + 1
            /\ pc' = "cards"
    /\ UNCHANGED << argv2, limit, site, error, papers, page_count, cards, paper_s2_id,
                    author_els, searchStop, authorPhaseVars, exportVars >>

\* what the four next-page selectors and the two state queries can answer:
\* no element, or an element with its disabled attribute and is_enabled()
NextButtons ==
    { None } \cup
    { Some([disabled |-> d, is_enabled |-> e]) :
          d \in { None, Some(<< >>), Some(<< "disabled" >>) }, e \in BOOLEAN }

\* line 290
CanClick(next_button) ==
    /\ Val(next_button).is_enabled
    /\ ~Truthy(Val(next_button).disabled)

\* line 269
MorePagesWanted == Len(papers) < limit

\* lines 268-302
Paginate ==
    /\ pc = "paginate"
    /\ IF MorePagesWanted
       THEN \E next_button \in NextButtons :
               IF IsSome(next_button) /\ CanClick(next_button)
               THEN /\ pc' = "ceiling"
                    /\ UNCHANGED << page_count, cardVars, searchStop >>
               ELSE LeaveSearch("no_next")
       ELSE /\ pc' = "ceiling"
            /\ UNCHANGED << page_count, cardVars, searchStop >>
    /\ UNCHANGED << argv2, limit, site, error, repoVars, authorPhaseVars, exportVars >>

\* line 305
CeilingReached == page_count > PageCeiling

\* lines 304-307
CeilingCheck ==
    /\ pc = "ceiling"
    /\ IF CeilingReached
       THEN LeaveSearch("ceiling")
       ELSE /\ pc' = "loop_head"
            /\ UNCHANGED << page_count, cardVars, searchStop >>
    /\ UNCHANGED << argv2, limit, site, error, repoVars, authorPhaseVars, exportVars >>

-----------------------------------------------------------------------------
(* Citation extraction from a profile (lines 334-387); texts are sequences *)
(* of characters                                                           *)

Digits == { "0", "1", "2", "3", "4", "5", "6", "7", "8", "9" }

DigitValue(c) ==
    CASE c = "0" -> 0 [] c = "1" -> 1 [] c = "2" -> 2 [] c = "3" -> 3
      [] c = "4" -> 4 [] c = "5" -> 5 [] c = "6" -> 6 [] c = "7" -> 7
      [] c = "8" -> 8 [] c = "9" -> 9

\* the class [\d,]
IsDigitComma(c) == c \in Digits \cup { "," }

\* the class \s
IsSpace(c) == c \in { " ", "\n", "\t", "\r" }

UpperToLower ==
    [ A |-> "a", B |-> "b", C |-> "c", D |-> "d", E |-> "e", F |-> "f",
      G |-> "g", H |-> "h", I |-> "i", J |-> "j", K |-> "k", L |-> "l",
      M |-> "m", N |-> "n", O |-> "o", P |-> "p", Q |-> "q", R |-> "r",
      S |-> "s", T |-> "t", U |-> "u", V |-> "v", W |-> "w", X |-> "x",
      Y |-> "y", Z |-> "z" ]

\* re.IGNORECASE compares letters by their lower case
Lower(c) == IF c \in DOMAIN UpperToLower THEN UpperToLower[c] ELSE c

RECURSIVE RunEnd(_, _)
\* the last position of the run of [\d,] characters that starts at i (i - 1 if
\* there is none): what the greedy [\d,]+ consumes from i
RunEnd(t, i) ==
    IF i <= Len(t) /\ IsDigitComma(t[i]) THEN RunEnd(t, i + 1) ELSE i - 1

RECURSIVE SkipSpace(_, _)
\* the first position from i on that holds no \s character: where \s* ends
SkipSpace(t, i) ==
    IF i <= Len(t) /\ IsSpace(t[i]) THEN SkipSpace(t, i + 1) ELSE i

\* the literal w matches t at position i, ignoring case
MatchWord(t, i, w) ==
    /\ i + Len(w) - 1 <= Len(t)
    /\ \A k \in 1..Len(w) : Lower(t[i + k - 1]) = w[k]

WordCitation == << "c", "i", "t", "a", "t", "i", "o", "n" >>
WordTotal == << "t", "o", "t", "a", "l" >>

RECURSIVE DigitsToInt(_, _)
\* the value of the digits of s, commas skipped, after the digits read so far
DigitsToInt(s, acc) ==
    IF s = << >> THEN acc
    ELSE IF Head(s) = "," THEN DigitsToInt(Tail(s), acc)
    ELSE DigitsToInt(Tail(s), 10 * acc + DigitValue(Head(s)))

\* int(run.replace(',', '')): None stands for the ValueError of int('')
ParseCount(run) ==
    IF \A k \in 1..Len(run) : run[k] = "," THEN None
    ELSE Some(DigitsToInt(run, 0))

\* re.search(r'([\d,]+)', text).group(1): the first run, None without a match
FirstRun(text) ==
    IF \E i \in 1..Len(text) : IsDigitComma(text[i])
    THEN LET i == CHOOSE i \in 1..Len(text) :
                    /\ IsDigitComma(text[i])
                    /\ \A j \in 1..(i - 1) : ~IsDigitComma(text[j])
         IN  Some(SubSeq(text, i, RunEnd(text, i)))
    ELSE None

\* line 360: the sanity check on a stat value
Plausible(n) == 0 <= n /\ n <= MaxCitation

Max(a, b) == IF a >= b THEN a ELSE b

\* lines 353-363 for one element: the new citation_count
StatStep(citation_count, text) ==
    LET m == FirstRun(text)
    IN  IF IsSome(m) /\ IsSome(ParseCount(Val(m)))
           /\ Plausible(Val(ParseCount(Val(m))))
        THEN Max(citation_count, Val(ParseCount(Val(m))))
        ELSE citation_count

RECURSIVE StatFold(_, _)
\* lines 350-363: all elements of all selectors, in order
StatFold(citation_count, texts) ==
    IF texts = << >> THEN citation_count
    ELSE StatFold(StatStep(citation_count, Head(texts)), Tail(texts))

RECURSIVE Flatten(_)
Flatten(ss) == IF ss = << >> THEN << >> ELSE Head(ss) \o Flatten(Tail(ss))

\* r'([\d,]+)\s*(?:Total\s+)?Citations?' matches at i
Pattern1At(t, i) ==
    /\ i <= Len(t) /\ IsDigitComma(t[i])
    /\ LET j == SkipSpace(t, RunEnd(t, i) + 1)
       IN  \/ MatchWord(t, j, WordCitation)
           \/ /\ MatchWord(t, j, WordTotal)
              /\ j + 5 <= Len(t) /\ IsSpace(t[j + 5])
              /\ MatchWord(t, SkipSpace(t, j + 5), WordCitation)

\* where the number of r'Citations?\s*[:\-]?\s*([\d,]+)' starts for a match at i
Pattern2Number(t, i) ==
    LET a == i + 8
        b == IF a <= Len(t) /\ Lower(t[a]) = "s" THEN a + 1 ELSE a
        c == SkipSpace(t, b)
        d == IF c <= Len(t) /\ t[c] \in { ":", "-" } THEN c + 1 ELSE c
    IN  SkipSpace(t, d)

Pattern2At(t, i) ==
    /\ MatchWord(t, i, WordCitation)
    /\ LET n == Pattern2Number(t, i)
       IN  n <= Len(t) /\ IsDigitComma(t[n])

\* r'([\d,]+)\s*\n\s*Citations?' matches at i
Pattern3At(t, i) ==
    /\ i <= Len(t) /\ IsDigitComma(t[i])
    /\ LET e == RunEnd(t, i)
           j == SkipSpace(t, e + 1)
       IN  /\ \E k \in (e + 1)..(j - 1) : t[k] = "\n"
           /\ MatchWord(t, j, WordCitation)

\* re.search(pattern, page_text, re.IGNORECASE).group(1) for pattern p in 1..3:
\* the group of the leftmost match, None without a match
PatternGroup(p, t) ==
    LET At(i) == CASE p = 1 -> Pattern1At(t, i)
                   [] p = 2 -> Pattern2At(t, i)
                   [] p = 3 -> Pattern3At(t, i)
    IN  IF \E i \in 1..Len(t) : At(i)
        THEN LET i == CHOOSE i \in 1..Len(t) :
                        At(i) /\ \A j \in 1..(i - 1) : ~At(j)
                 n == IF p = 2 THEN Pattern2Number(t, i) ELSE i
             IN  Some(SubSeq(t, n, RunEnd(t, n)))
        ELSE None

RECURSIVE TextSearch(_, _)
\* lines 375-383: the patterns from p on, in order; the first whose group
\* parses is taken as it is
TextSearch(p, t) ==
    IF p > 3 THEN 0
    ELSE LET g == PatternGroup(p, t)
         IN  IF IsSome(g) /\ IsSome(ParseCount(Val(g)))
             THEN Val(ParseCount(Val(g)))
             ELSE TextSearch(p + 1, t)

\* A profile is what the author page answers: whether .author-detail-cards
\* appears within the wait, the texts of the elements of each of the four
\* stat selectors, and the inner text of body.
\* lines 334-387: the citation_count of a profile whose navigation succeeded
ExtractCitations(profile) ==
    IF ~profile.cards_appear THEN 0
    ELSE LET fromStats == StatFold(0, Flatten(profile.sel_texts))
         IN  IF fromStats = 0 THEN TextSearch(1, profile.body) ELSE fromStats

-----------------------------------------------------------------------------
(* Profiles the site can serve *)

Chars_Citations == << "C", "i", "t", "a", "t", "i", "o", "n", "s" >>

\* labels holds, for each stat element, the label the page prints next to it
\* (<< >> when it has none); no line of the source reads the labels
Profile(appear, sel_texts, body) ==
    [ cards_appear |-> appear, sel_texts |-> sel_texts, body |-> body,
      labels |-> [i \in 1..Len(sel_texts) |-> [k \in 1..Len(sel_texts[i]) |-> << >>]] ]

\* the profile with the stat elements of its first selector labelled
Labelled(profile, first_labels) ==
    [profile EXCEPT !.labels[1] = first_labels]

\* the profile-loaded selector never appears
ProfileNeverLoads ==
    Profile(FALSE, << << << "9", "9" >> >>, << >>, << >>, << >> >>,
            << "9", "9", " " >> \o Chars_Citations)

\* loaded, no stat element, no number anywhere in the text
ProfileEmpty ==
    Profile(TRUE, << << >>, << >>, << >>, << >> >>, << "N", "o", " " >> \o Chars_Citations)

\* loaded, stat rows h-index 41 and Citations 1,250
ProfileStats ==
    Labelled(Profile(TRUE, << << << "4", "1" >>, << "1", ",", "2", "5", "0" >> >>,
                              << >>, << >>, << >> >>,
                     << "h", "-", "i", "n", "d", "e", "x", " ", "4", "1" >>),
             << << "h-index" >>, << "Citations" >> >>)

\* loaded, no stat element, the text says "Citations: 77"
ProfileText ==
    Profile(TRUE, << << >>, << >>, << >>, << >> >>,
            Chars_Citations \o << ":", " ", "7", "7" >>)

\* loaded, no stat element, the text says "5,000,000 Citations"
ProfileBigText ==
    Profile(TRUE, << << >>, << >>, << >>, << >> >>,
            << "5", ",", "0", "0", "0", ",", "0", "0", "0", " " >> \o Chars_Citations)

\* loaded, the stat rows of a new author: Publications 5, h-index 1, Citations 2
ProfileRows ==
    Labelled(Profile(TRUE, << << << "5" >>, << "1" >>, << "2" >> >>,
                              << >>, << >>, << >> >>,
                     << >>),
             << << "Publications" >>, << "h-index" >>, << "Citations" >> >>)

\* loaded, one stat row: Citations 3.2k
ProfileAbbreviated ==
    Labelled(Profile(TRUE, << << << "3", ".", "2", "k" >> >>, << >>, << >>, << >> >>,
                     << >>),
             << << "Citations" >> >>)

Profiles ==
    { ProfileNeverLoads, ProfileEmpty, ProfileStats, ProfileText,
      ProfileBigText, ProfileRows, ProfileAbbreviated }

\* the profile shows no number at all, or never loads: a visited-but-empty profile
ShowsNoNumber(profile) ==
    \/ ~profile.cards_appear
    \/ /\ \A k \in 1..Len(Flatten(profile.sel_texts)) :
             FirstRun(Flatten(profile.sel_texts)[k]) = None
       /\ FirstRun(profile.body) = None

-----------------------------------------------------------------------------
(* Phase 2: _scrape_author_profiles (lines 309-404) *)

\* the bug of looping again over the URLs whose visit failed
RemainingOrFailed ==
    author_urls_to_scrape \ { u \in DOMAIN visited : visited[u] # "failed" }

\* the URLs the for loop of line 318 has not reached yet
Remaining == author_urls_to_scrape \ DOMAIN visited

\* lines 318-328 (the next URL of the set, in the set's iteration order, and
\* its page), or lines 404 and 83 when the set is exhausted
AuthorLoop ==
    /\ pc = "author_loop"
    /\ IF Remaining = {}
       THEN /\ pc' = "export"
            /\ UNCHANGED << auth_url, openPages, slept >>
       ELSE \E u \in Remaining :
               /\ auth_url' = u
               /\ openPages' = openPages + 1
               /\ slept' = FALSE
               /\ pc' = "visit"
    /\ UNCHANGED << argv2, limit, site, error, repoVars, page_count, cardVars,
                    searchStop, visited, attempts, last_visit, exportVars >>

\* line 390 and line 397: self.authors[author_id]['citation_count'] = value
SetCitationCount(as, author_id, value) ==
    [as EXCEPT ![author_id].citation_count = value]

\* what page.goto of line 331 and the extraction after it can do: the
\* navigation raises, a call after it raises something other than the
\* selector timeout, or the profile is read
VisitResults ==
    { [kind |-> "goto_raised"], [kind |-> "extraction_raised"] }
        \cup { [kind |-> "read", profile |-> p] : p \in Profiles }

\* the value the visit stores: lines 390 and 397
VisitValue(r) ==
    IF r.kind = "read" THEN Some(ExtractCitations(r.profile)) ELSE None

\* how the visit is classified: failed, visited but empty, or visited with data
VisitClass(r) ==
    IF r.kind # "read" THEN "failed"
    ELSE IF ShowsNoNumber(r.profile) THEN "empty" ELSE "data"

\* what page.close() of line 400 can do
CloseResults == { "closed", "raised" }

\* the bug of closing the page and sleeping at the end of the try block, which
\* only a visit without an exception reaches
FinallyOnSuccessOnly(r) == r.kind = "read"

\* lines 399-402 are a finally block: they run whatever the visit did
FinallyRuns(r) == TRUE

\* lines 330-402: one visit, with its handlers and its finally block.  The
\* record is addressed by the id of line 320; when that id is no key of
\* self.authors, line 390 raises KeyError into the handler of line 393, whose
\* line 397 raises KeyError again, which leaves run() after page.close() and
\* the sleep.  When page.close() itself raises, the sleep is skipped and that
\* exception leaves run() with the page as it is.
VisitAuthor ==
    /\ pc = "visit"
    /\ \E r \in VisitResults, close \in CloseResults :
          LET author_id == VisitedAuthorId(auth_url)
              closed == FinallyRuns(r) /\ close = "closed"
              closeRaised == FinallyRuns(r) /\ close = "raised"
          IN  /\ visited' = Put(visited, auth_url, VisitClass(r))
              /\ last_visit' = r
              /\ attempts' = Put(attempts, auth_url,
                                 IF auth_url \in DOMAIN attempts
                                 THEN attempts[auth_url] + 1 ELSE 1)
              /\ authors' = IF author_id \in DOMAIN authors
                            THEN SetCitationCount(authors, author_id, VisitValue(r))
                            ELSE authors
              /\ openPages' = IF closed THEN openPages - 1 ELSE openPages
              /\ slept' = closed
              /\ IF closeRaised
                 THEN pc' = "aborted" /\ error' = "PlaywrightError"
                 ELSE IF author_id \in DOMAIN authors
                 THEN pc' = "author_loop" /\ error' = error
                 ELSE pc' = "aborted" /\ error' = "KeyError"
    /\ UNCHANGED << argv2, limit, site, papers, paper_authors, author_urls_to_scrape,
                    page_count, cardVars, searchStop, auth_url, exportVars >>

-----------------------------------------------------------------------------
(* Phase 3: _export_data (lines 406-438) *)

RECURSIVE DropDuplicatesKeepLast(_, _, _)
\* the bug of keep='last': a row is dropped when a later row has its key
DropDuplicatesKeepLast(rows, keys, seen) ==
    IF rows = << >> THEN << >>
    ELSE IF \E k \in 2..Len(keys) : keys[k] = Head(keys)
    THEN DropDuplicatesKeepLast(Tail(rows), Tail(keys), seen)
    ELSE << Head(rows) >> \o DropDuplicatesKeepLast(Tail(rows), Tail(keys), seen)

RECURSIVE DropDuplicates(_, _, _)
\* DataFrame.drop_duplicates keeps the first row of each key; keys[i] is the
\* value of the compared columns in rows[i], seen the keys of the rows kept
DropDuplicates(rows, keys, seen) ==
    IF rows = << >> THEN << >>
    ELSE IF Head(keys) \in seen
    THEN DropDuplicates(Tail(rows), Tail(keys), seen)
    ELSE << Head(rows) >>
             \o DropDuplicates(Tail(rows), Tail(keys), seen \cup { Head(keys) })

\* subset='paper_id' (line 415)
PaperKeys(rows) == [i \in 1..Len(rows) |-> rows[i].paper_id]

\* no subset: all columns (line 426)
WholeRows(rows) == rows

\* the bug of leaving out the drop_duplicates of line 415
ExportPapersKeepAll(ps) == ps

\* lines 413-415
ExportPapers(ps) == DropDuplicates(ps, PaperKeys(ps), {})

\* line 420 (the rows of authors.csv; their order is not modelled)
ExportAuthors(as) == { as[k] : k \in DOMAIN as }

\* the bug of comparing the author_id column only at line 426
ExportLinksByAuthor(links) ==
    DropDuplicates(links, [i \in 1..Len(links) |-> links[i].author_id], {})

\* lines 425-426
ExportLinks(links) == DropDuplicates(links, WholeRows(links), {})

\* lines 406-438: the three tables are written (drop_duplicates returns an
\* empty frame as it is), then the summary divides by the number of exported
\* papers (line 434), which raises ZeroDivisionError when there is none
ExportData ==
    /\ pc = "export"
    /\ exportInvoked' = TRUE
    /\ csv_papers' = ExportPapers(papers)
    /\ csv_authors' = ExportAuthors(authors)
    /\ csv_paper_authors' = ExportLinks(paper_authors)
    /\ IF Len(ExportPapers(papers)) = 0
       THEN pc' = "aborted" /\ error' = "ZeroDivisionError"
       ELSE pc' = "done" /\ error' = error
    /\ UNCHANGED << argv2, limit, site, repoVars, page_count, cardVars, searchStop,
                    authorPhaseVars >>

-----------------------------------------------------------------------------
(* Exceptions that no handler of run() catches *)

\* the positions whose Playwright calls are outside every try block: line 92,
\* lines 105-115 (other than the selector timeout), 130, 149-205, 232-239,
\* 281-294, 326-328 and 83
UnguardedPositions ==
    { "start", "wait", "query", "cards", "card_authors", "paginate", "author_loop" }

\* a browser or page operation raises and the exception leaves run()
Fatal ==
    /\ pc \in UnguardedPositions
    /\ pc' = "aborted"
    /\ error' = "PlaywrightError"
    /\ page_count' = 0
    /\ cards' = << >>
    /\ cardIdx' = 0
    /\ paper_s2_id' = << >>
    /\ author_els' = << >>
    /\ authIdx' = 0
    /\ UNCHANGED << argv2, limit, site, repoVars, searchStop, authorPhaseVars, exportVars >>

-----------------------------------------------------------------------------

Next ==
    \/ Goto
    \/ LoopHead
    \/ WaitForResults
    \/ QueryCards
    \/ ProcessCard
    \/ ProcessAuthor
    \/ Paginate
    \/ CeilingCheck
    \/ AuthorLoop
    \/ VisitAuthor
    \/ ExportData
    \/ Fatal

Spec == Init /\ [][Next]_vars

\* Every step of run() ends: each Playwright call either returns or raises
\* within its timeout, and the sleeps are bounded.
FairSpec == Spec /\ WF_vars(Next)

-----------------------------------------------------------------------------
(* Properties *)

SearchPositions ==
    { "start", "loop_head", "wait", "query", "cards", "card_authors",
      "paginate", "ceiling" }

Terminated == pc \in { "done", "aborted" }

\* C1: whenever run() has terminated, normally or by an exception that left
\* it, _export_data has been invoked.
C1_ExportBeforeTerminating == Terminated => exportInvoked

\* C2: the exported papers table holds no two rows with the same paper_id and
\* the exported paper_authors table holds no two rows with the same
\* (paper_id, author_id) pair, also when the same cards were processed twice.
C2_NoDuplicateRows ==
    /\ \A i, j \in 1..Len(csv_papers) :
          csv_papers[i].paper_id = csv_papers[j].paper_id => i = j
    /\ \A i, j \in 1..Len(csv_paper_authors) :
          ( /\ csv_paper_authors[i].paper_id = csv_paper_authors[j].paper_id
            /\ csv_paper_authors[i].author_id = csv_paper_authors[j].author_id )
              => i = j

\* the same card was processed twice, its author links with it, and the
\* tables were exported
C2_Witness ==
    /\ exportInvoked
    /\ \E i, j \in 1..Len(papers) : i < j /\ papers[i] = papers[j]
    /\ \E i, j \in 1..Len(paper_authors) : i < j /\ paper_authors[i] = paper_authors[j]

\* C3: every paper_authors row names a paper of the papers collection and a
\* key of the authors collection, in the repository and in the exported tables.
C3_ReferentialIntegrity ==
    /\ \A i \in 1..Len(paper_authors) :
          /\ \E k \in 1..Len(papers) : papers[k].paper_id = paper_authors[i].paper_id
          /\ paper_authors[i].author_id \in DOMAIN authors
    /\ \A i \in 1..Len(csv_paper_authors) :
          /\ \E k \in 1..Len(csv_papers) :
                csv_papers[k].paper_id = csv_paper_authors[i].paper_id
          /\ \E row \in csv_authors : row.author_id = csv_paper_authors[i].author_id

\* links of two different papers were collected and exported
C3_Witness ==
    /\ pc = "done"
    /\ \E i, j \in 1..Len(csv_paper_authors) :
          csv_paper_authors[i].paper_id # csv_paper_authors[j].paper_id

\* C4: the number of collected papers never exceeds the configured limit, no
\* card is processed once the count has reached the limit, and the exported
\* papers table has at most limit rows.
C4_PapersWithinLimit ==
    /\ Len(papers) <= limit
    /\ Len(csv_papers) <= limit

\* the bound of C4 for the limits that are not negative
PapersWithinNonNegativeLimit == limit >= 0 => C4_PapersWithinLimit

\* C5: the search phase terminates, whatever the site serves.
C5_SearchTerminates == <>(pc \notin SearchPositions)

\* the looping site kept serving a card and an enabled next control until the
\* page ceiling ended the search
C5_Witness == searchStop = "ceiling" /\ site = "looping" /\ Len(papers) > PageCeiling

\* the URLs of the visit queue that belong to author a
QueueEntries(a) == { u \in author_urls_to_scrape : DiscoveredAuthorId(u) = a }

\* the author phase ran to its end (line 404)
AuthorPhaseComplete == pc \in { "export", "done" } \/ error = "ZeroDivisionError"

\* C6: the visit queue holds exactly one entry per author of the authors
\* collection and nothing else, no profile is opened twice, and when the author
\* phase has run to its end every author's profile has been opened exactly once.
C6_EachAuthorOnce ==
    /\ \A a \in DOMAIN authors : Cardinality(QueueEntries(a)) = 1
    /\ \A u \in author_urls_to_scrape : DiscoveredAuthorId(u) \in DOMAIN authors
    /\ \A u \in DOMAIN attempts : u \in author_urls_to_scrape /\ attempts[u] = 1
    /\ AuthorPhaseComplete =>
          \A a \in DOMAIN authors :
              Cardinality({ u \in DOMAIN attempts : DiscoveredAuthorId(u) = a }) = 1

\* an author listed by two papers under two different profile links was
\* visited, and the run completed
C6_Witness ==
    /\ pc = "done"
    /\ \E i, j \in 1..Len(paper_authors) :
          /\ paper_authors[i].author_id = paper_authors[j].author_id
          /\ paper_authors[i].paper_id # paper_authors[j].paper_id
    /\ \E k \in 1..Len(papers) : papers[k].paper_id = Md5Prefix(UnknownTitle)

\* C7: an author whose visit failed has citation_count null, and the failed
\* visit does not end the author phase: control returns to the queue.
C7_FailedVisitAdvances ==
    [][ ( pc = "visit" /\ visited'[auth_url] = "failed" )
            => ( /\ pc' = "author_loop"
                 /\ authors'[DiscoveredAuthorId(auth_url)].citation_count = None ) ]_vars

C10_EmptyIsZeroFailedIsNull ==
    \A u \in DOMAIN visited :
        LET a == authors[DiscoveredAuthorId(u)]
        IN  /\ visited[u] = "empty" => a.citation_count = Some(0)
            /\ visited[u] = "failed" => a.citation_count = None

\* C11: no extraction layer lets a value outside [0, 1000000] through: every
\* author's citation_count is null or an integer of that range.
C11_CitationWithinRange ==
    \A a \in DOMAIN authors :
        authors[a].citation_count # None => Plausible(Val(authors[a].citation_count))

\* the latest visit read a profile and its author record was addressed
ProfileRead ==
    /\ pc # "visit"
    /\ last_visit.kind = "read"
    /\ VisitedAuthorId(auth_url) \in DOMAIN authors

\* a label that contains "Citations" and not "Influential"
IsCitationLabel(label) ==
    /\ \E k \in 1..Len(label) : label[k] = "Citations"
    /\ \A k \in 1..Len(label) : label[k] # "Influential"

\* the positions of the citation rows among the stat elements of selector i
CitationRows(profile, i) ==
    { k \in 1..Len(profile.labels[i]) : IsCitationLabel(profile.labels[i][k]) }

\* C12: when the profile has a stat row labelled "Citations" (and not
\* "Influential"), the stored citation_count is the value of that row, never
\* the value of a paper-count, h-index or influential-citations row.
C12_CitationRowSelected ==
    ( ProfileRead /\ last_visit.profile.cards_appear ) =>
        \A i \in 1..Len(last_visit.profile.labels) :
            \A k \in CitationRows(last_visit.profile, i) :
                authors[VisitedAuthorId(auth_url)].citation_count
                    = Some(StatStep(0, last_visit.profile.sel_texts[i][k]))

\* rule i is the first rule of the list that yields a match; matched[i] tells
\* whether rule i does
FirstMatching(matched, i) ==
    /\ i \in 1..Len(matched)
    /\ matched[i]
    /\ \A j \in 1..(i - 1) : ~matched[j]

ScenarioRan ==
    /\ site = "twopage" /\ limit = ScenarioLimit /\ pc = "done"
    /\ papers = << PaperOf(Card1), PaperOf(TwoPageCard2), PaperOf(TwoPageCard3) >>

\* C14 as stated: the scenario exports 3 papers, 3 authors and 4 links.
C14_ScenarioFourLinks ==
    ScenarioRan =>
        /\ Len(csv_papers) = 3
        /\ Cardinality(csv_authors) = 3
        /\ Len(csv_paper_authors) = 4

\* C14 as amended: the scenario exports 3 papers, 3 authors and 6 links, one
\* per (paper, listed author) pair.
C14_ScenarioSixLinks ==
    ScenarioRan =>
        /\ Len(csv_papers) = 3
        /\ Cardinality(csv_authors) = 3
        /\ Len(csv_paper_authors) = 6
        /\ \A i \in 1..3 :
              Cardinality({ k \in 1..Len(csv_paper_authors) :
                              csv_paper_authors[k].paper_id = csv_papers[i].paper_id }) = 2

\* the scenario ran to its end and the shared author is on all three papers
C14_Witness ==
    /\ ScenarioRan
    /\ \A i \in 1..3 :
          \E k \in 1..Len(csv_paper_authors) :
              /\ csv_paper_authors[k].paper_id = csv_papers[i].paper_id
              /\ csv_paper_authors[k].author_id = << "101" >>

\* the value of a number text that starts text: thousands separators are
\* dropped, and a trailing k or K multiplies by 1000, one decimal included
AbbreviatedValue(text) ==
    LET e == RunEnd(text, 1)
        whole == DigitsToInt(SubSeq(text, 1, e), 0)
        hasTenth == e + 2 <= Len(text) /\ text[e + 1] = "." /\ text[e + 2] \in Digits
        tenth == IF hasTenth THEN DigitValue(text[e + 2]) ELSE 0
        suffix == IF hasTenth THEN e + 3 ELSE e + 1
    IN  IF suffix <= Len(text) /\ Lower(text[suffix]) = "k"
        THEN 1000 * whole + 100 * tenth
        ELSE whole

\* C15: a number text is parsed with its thousands separators dropped and a
\* trailing k or K as a multiplier of 1000 ("12,450" is 12450, "3.2k" is 3200),
\* in the stat layer (a profile with one stat element) and in the text layer
\* (a profile without stat elements whose text starts with the number).
C15_SeparatorsAndSuffix ==
    ( ProfileRead /\ last_visit.profile.cards_appear ) =>
        LET texts == Flatten(last_visit.profile.sel_texts)
            body == last_visit.profile.body
            stored == authors[VisitedAuthorId(auth_url)].citation_count
        IN  /\ Len(texts) = 1 => stored = Some(AbbreviatedValue(texts[1]))
            /\ ( texts = << >> /\ body # << >> /\ body[1] \in Digits )
                  => stored = Some(AbbreviatedValue(body))

\* the first row of rows that has the paper_id id
FirstWithId(rows, id) ==
    rows[CHOOSE k \in 1..Len(rows) :
            /\ rows[k].paper_id = id
            /\ \A j \in 1..(k - 1) : rows[j].paper_id # id]

\* C16: first seen wins.  Every exported papers row is the row of the first
\* card processed with its paper_id; an author record is created with the name
\* and profile URL of the sighting that creates it, no later step changes its
\* name or profile_url, and the exported authors rows are the stored records.
C16_FirstSeenWins ==
    [][ /\ \A i \in 1..Len(csv_papers') :
              csv_papers'[i] = FirstWithId(papers', csv_papers'[i].paper_id)
        /\ \A a \in DOMAIN authors :
              /\ a \in DOMAIN authors'
              /\ authors'[a].name = authors[a].name
              /\ authors'[a].profile_url = authors[a].profile_url
        /\ \A a \in DOMAIN authors' \ DOMAIN authors :
              /\ authors'[a].name = Strip(author_els[authIdx].name)
              /\ authors'[a].profile_url = FullAuthUrl(Val(author_els[authIdx].href))
        /\ \A row \in csv_authors' : row = authors'[row.author_id] ]_vars

\* two cards with one paper_id and different titles, urls and years were
\* processed, the second listing a known author under another name, and the
\* tables were exported
C16_Witness ==
    /\ pc = "done"
    /\ papers = << PaperOf(Card1), PaperOf(Card3) >>
    /\ PaperOf(Card1).title # PaperOf(Card3).title
    /\ PaperOf(Card1).url # PaperOf(Card3).url
    /\ csv_papers = << PaperOf(Card1) >>
    /\ \E k \in 1..Len(Card3.author_sel_els[4]) :
          /\ IsAuthorLink(Card3.author_sel_els[4][k])
          /\ DiscoveredAuthorId(Val(Card3.author_sel_els[4][k].href)) = << "101" >>
          /\ Strip(Card3.author_sel_els[4][k].name) # authors[<< "101" >>].name

\* C17: the limit handed to the scraper is a positive integer: a limit
\* argument that is no number, or zero or negative, gives the default 50, and
\* a positive integer is used as given.
C17_EffectiveLimitPositive ==
    /\ limit >= 1
    /\ IF IsSome(argv2) /\ IsSome(ParseInt(Val(argv2))) /\ Val(ParseInt(Val(argv2))) >= 1
       THEN limit = Val(ParseInt(Val(argv2)))
       ELSE limit = DefaultLimit

\* C18: the search phase processes at most PageCeiling pages: whenever the
\* cards of a page are being parsed, that page is one of the first 20.
C18_AtMostTwentyPages ==
    pc \in { "cards", "card_authors" } => page_count <= PageCeiling

\* C19: _export_data completes for every repository state, the empty one
\* included: once it has been entered with no paper collected, the three
\* tables are written and the summary is finished without an exception.
C19_EmptyExportCompletes ==
    ( exportInvoked /\ papers = << >> ) => ( pc = "done" /\ error = "none" )

\* C20: for every URL of the visit queue the id derived at visit time is the
\* author_id key stored at discovery, so the citation_count update and the
\* failure handler address an existing record and never raise.
C20_VisitIdIsStoredKey ==
    /\ \A u \in author_urls_to_scrape :
          /\ VisitedAuthorId(u) = DiscoveredAuthorId(u)
          /\ VisitedAuthorId(u) \in DOMAIN authors
    /\ error # "KeyError"

\* C21: author profiles are visited one after the other.  At most one author
\* page is open at any time; a page is opened only when no author page is open
\* and, after the first visit, only when the pacing sleep has run since the
\* previous visit; and a visit that returns control to the queue, on the
\* success path or on the failure path, has closed its page and slept.
C21_SequentialPacedVisits ==
    [][ /\ openPages <= 1 /\ openPages' <= 1
        /\ ( pc = "author_loop" /\ pc' = "visit" )
              => ( /\ openPages = 0
                   /\ visited # << >> => slept )
        /\ ( pc = "visit" /\ pc' = "author_loop" )
              => ( openPages' = 0 /\ slept' ) ]_vars

\* a second author page is open after a visit that failed
C21_Witness ==
    /\ pc = "visit"
    /\ openPages = 1
    /\ \E u \in DOMAIN visited : visited[u] = "failed"

====
